---- MODULE Spec2Model ----
(***************************************************************************)
(* Model of src/api/handler.rs: the path router (handler), the resource   *)
(* handlers, the tiered resolver (fetch_with_fallback), the local         *)
(* snapshot store (load_backup_data) and the read-through cache           *)
(* (get_cached_or_fetch over a moka cache with max_capacity and           *)
(* time_to_live).                                                          *)
(*                                                                         *)
(* Strings are sequences of one-character strings, so that format! is     *)
(* concatenation and split('/') is computed, not assumed.                 *)
(***************************************************************************)
EXTENDS Integers, Sequences, FiniteSets, TLC

----------------------------------------------------------------------------
(* Bounds of the model *)

\* the cache's max_capacity(1000), scaled down so that capacity pressure occurs
CapacityBound == 2
\* the clock advances in steps of TickSecs seconds
TickSecs == 300

(* Program constants *)

\* const BOOTSTRAP_CACHE_DURATION: u64 = 600
BOOTSTRAP_CACHE_DURATION == 600

----------------------------------------------------------------------------
(* Strings *)

SLASH == "/"
DASH == "-"

s_empty == << >>
s_health == <<"/","h","e","a","l","t","h">>
s_bootstrap_static == <<"b","o","o","t","s","t","r","a","p","-","s","t","a","t","i","c">>
s_fixtures == <<"f","i","x","t","u","r","e","s">>
s_element_summary == <<"e","l","e","m","e","n","t","-","s","u","m","m","a","r","y">>
s_live_event == <<"l","i","v","e","-","e","v","e","n","t">>
s_picks == <<"p","i","c","k","s">>
s_manager == <<"m","a","n","a","g","e","r">>
s_transfers == <<"t","r","a","n","s","f","e","r","s">>
s_history == <<"h","i","s","t","o","r","y">>
s_league == <<"l","e","a","g","u","e">>
s_mon == <<"m","o","n">>
s_id == <<"i","d">>
s_gw == <<"g","w">>

\* Option<T>
None == <<"None">>
Some(x) == <<"Some", x>>
IsSome(o) == o[1] = "Some"
Unwrap(o) == o[2]

\* Result<Value, String>
Ok(data) == <<"Ok", data>>
Err(msg) == <<"Err", msg>>
IsOk(result) == result[1] = "Ok"
IsErr(result) == result[1] = "Err"

\* str::starts_with
StartsWith(s, prefix) ==
    /\ Len(s) >= Len(prefix)
    /\ SubSeq(s, 1, Len(prefix)) = prefix

\* position of the first separator in s, or 0
RECURSIVE FirstSep(_, _, _)
FirstSep(s, sep, i) ==
    IF i > Len(s) THEN 0
    ELSE IF s[i] = sep THEN i
    ELSE FirstSep(s, sep, i + 1)

\* str::split(sep).collect(): n separators give n + 1 parts, empty parts kept
RECURSIVE Split(_, _)
Split(s, sep) ==
    LET i == FirstSep(s, sep, 1) IN
    IF i = 0 THEN <<s>>
    ELSE <<SubSeq(s, 1, i - 1)>> \o Split(SubSeq(s, i + 1, Len(s)), sep)

\* fn extract_path_param(uri, pattern, param_name) -> Option<String>
extract_path_param(uri, pattern, param_name) ==
    LET pattern_parts == Split(pattern, SLASH)
        uri_parts == Split(uri, SLASH)
        hits == { i \in 1..Len(pattern_parts) :
                    /\ StartsWith(pattern_parts[i], <<":">>)
                    /\ SubSeq(pattern_parts[i], 2, Len(pattern_parts[i])) = param_name }
    IN IF Len(pattern_parts) # Len(uri_parts) THEN None
       ELSE IF hits = {} THEN None
       ELSE Some(uri_parts[CHOOSE i \in hits : \A j \in hits : i <= j])

----------------------------------------------------------------------------
(* Resource handlers: request parameters -> what to resolve and whether to
   cache.  A plan is what a handler passes to get_cached_or_fetch (cache_key
   is Some) or to fetch_with_fallback (cache_key is None).  The URLs are kept
   as tags: only their presence decides the control flow. *)

Query(resource, params) == [resource |-> resource, params |-> params]

Resolve(query, cache_key, backup_url, local_backup) ==
    [kind |-> "resolve", query |-> query, cache_key |-> cache_key,
     backup_url |-> backup_url, local_backup |-> local_backup, err |-> None]

Fail(msg) ==
    [kind |-> "error", query |-> None, cache_key |-> None,
     backup_url |-> None, local_backup |-> None, err |-> msg]

\* mutant: the health route resolves against an upstream
Health_fetched ==
    [kind |-> "resolve", query |-> [resource |-> "health", params |-> << >>],
     cache_key |-> None, backup_url |-> None, local_backup |-> None,
     err |-> None]

Health ==
    [kind |-> "health", query |-> None, cache_key |-> None,
     backup_url |-> None, local_backup |-> None, err |-> None]

handle_bootstrap_static ==
    Resolve(Query("bootstrap-static", << >>), Some(s_bootstrap_static),
            Some("backup_url"), Some(s_bootstrap_static))

\* mutant: the fixtures are resolved through get_cached_or_fetch
handle_fixtures_cached ==
    Resolve(Query("fixtures", << >>), Some(s_fixtures), Some("backup_url"), Some(s_fixtures))

handle_fixtures ==
    Resolve(Query("fixtures", << >>), None, Some("backup_url"), Some(s_fixtures))

handle_element_summary(id) ==
    Resolve(Query("element-summary", <<id>>), None, None, None)

\* let cache_key = format!("live-event-{}", gw)
handle_live_event(gw) ==
    Resolve(Query("live-event", <<gw>>), Some(s_live_event \o <<DASH>> \o gw),
            None, Some(s_live_event))

\* let cache_key = format!("picks-{}-{}", manager_id, gw)
handle_picks(manager_id, gw) ==
    Resolve(Query("picks", <<manager_id, gw>>),
            Some(s_picks \o <<DASH>> \o manager_id \o <<DASH>> \o gw),
            None, None)

handle_manager_info(id) ==
    Resolve(Query("manager-info", <<id>>), None, None, None)

handle_manager_transfers(id) ==
    Resolve(Query("manager-transfers", <<id>>), None, None, None)

handle_manager_history(id) ==
    Resolve(Query("manager-history", <<id>>), None, None, None)

handle_league_standings(league_id, page) ==
    Resolve(Query("league-standings", <<league_id, page>>), None, None, None)

handle_league_standings_by_phase(league_id, phase) ==
    Resolve(Query("league-standings-by-phase", <<league_id, phase>>), None, None, None)

\* the route match of handler()
handler_route(path) ==
    LET parts == Split(path, SLASH) IN
    IF path = s_health THEN Health
    ELSE IF path = <<SLASH>> \o s_bootstrap_static THEN handle_bootstrap_static
    ELSE IF path = <<SLASH>> \o s_fixtures THEN handle_fixtures
    ELSE IF StartsWith(path, <<SLASH>> \o s_element_summary \o <<SLASH>>) THEN
        LET id == extract_path_param(path,
                    <<SLASH>> \o s_element_summary \o <<SLASH, ":">> \o s_id, s_id)
        IN IF IsSome(id) THEN handle_element_summary(Unwrap(id))
           ELSE Fail("Invalid element ID")
    ELSE IF StartsWith(path, <<SLASH>> \o s_live_event \o <<SLASH>>) THEN
        LET gw == extract_path_param(path,
                    <<SLASH>> \o s_live_event \o <<SLASH, ":">> \o s_gw, s_gw)
        IN IF IsSome(gw) THEN handle_live_event(Unwrap(gw))
           ELSE Fail("Invalid gameweek")
    ELSE IF StartsWith(path, <<SLASH>> \o s_picks \o <<SLASH>>) THEN
        \* sequences count from 1: the source's parts[1..3] are parts[2..4]
        IF Len(parts) = 4 /\ parts[2] = s_picks
        THEN handle_picks(parts[3], parts[4])
        ELSE Fail("Invalid picks path")
    ELSE IF StartsWith(path, <<SLASH>> \o s_manager \o <<SLASH>>) THEN
        IF Len(parts) >= 3 THEN
            IF Len(parts) = 3 THEN handle_manager_info(parts[3])
            ELSE IF Len(parts) = 4 THEN
                IF parts[4] = s_transfers THEN handle_manager_transfers(parts[3])
                ELSE IF parts[4] = s_history THEN handle_manager_history(parts[3])
                ELSE Fail("Invalid manager endpoint")
            ELSE Fail("Invalid manager path")
        ELSE Fail("Invalid manager path")
    ELSE IF StartsWith(path, <<SLASH>> \o s_league \o <<SLASH>>) THEN
        IF Len(parts) = 4 /\ parts[2] = s_league
        THEN handle_league_standings(parts[3], parts[4])
        ELSE IF Len(parts) = 5 /\ parts[2] = s_league /\ parts[3] = s_mon
        THEN handle_league_standings_by_phase(parts[4], parts[5])
        ELSE Fail("Invalid league path")
    ELSE Fail("Not Found")

\* a JSON value as the text of a response body: an object of one member,
\* written "{" key ":" value "}"
LBRACE == "{"
RBRACE == "}"
COLON == ":"

\* mutant: the serialisation keeps the key only
to_string_lossy(data) == <<LBRACE, data[1], COLON, << >>, RBRACE>>

\* serde_json::to_string(&data), and error_json.to_string()
to_string(data) == <<LBRACE, data[1], COLON, data[2], RBRACE>>

\* serde_json::from_str, what a client reads from a body
from_str(text) ==
    IF /\ Len(text) = 5
       /\ text[1] = LBRACE /\ text[3] = COLON /\ text[5] = RBRACE
    THEN Some(<<text[2], text[4]>>)
    ELSE None

\* the body of the response handler() builds from a result: the data, or
\* json!({"error": error_msg, ..})
ResponseBody(result) ==
    IF result[1] = "Ok" THEN to_string(result[2])
    ELSE to_string(<<"error", <<result[2]>>>>)

\* mutant: every error is answered alike
ResponseStatus_flat(result) == IF result[1] = "Ok" THEN 200 ELSE 500

\* the status of the response handler() builds from a result
ResponseStatus(result) ==
    IF result[1] = "Ok" THEN 200
    ELSE IF result[2] = "Not Found" THEN 404
    ELSE 500

----------------------------------------------------------------------------
(* The request paths of the model.  Path segments are arbitrary strings
   without '/', here over the characters 1 and -. *)

path_health == s_health
path_bootstrap == <<SLASH>> \o s_bootstrap_static
path_fixtures == <<SLASH>> \o s_fixtures
path_element == <<SLASH>> \o s_element_summary \o <<SLASH, "1">>
path_live == <<SLASH>> \o s_live_event \o <<SLASH, "1">>
path_picks_a == <<SLASH>> \o s_picks \o <<SLASH, "1", "-", "1", SLASH, "1">>
path_picks_b == <<SLASH>> \o s_picks \o <<SLASH, "1", SLASH, "1", "-", "1">>
path_picks_short == <<SLASH>> \o s_picks \o <<SLASH, "1">>
path_unknown == <<SLASH, "1">>
path_picks_bare == <<SLASH>> \o s_picks
path_element_long == <<SLASH>> \o s_element_summary \o <<SLASH, "1", SLASH, "1">>
path_live_long == <<SLASH>> \o s_live_event \o <<SLASH, "1", SLASH, "1">>
path_manager == <<SLASH>> \o s_manager \o <<SLASH, "1">>
path_manager_transfers == <<SLASH>> \o s_manager \o <<SLASH, "1", SLASH>> \o s_transfers
path_manager_history == <<SLASH>> \o s_manager \o <<SLASH, "1", SLASH>> \o s_history
path_manager_other == <<SLASH>> \o s_manager \o <<SLASH, "1", SLASH, "1">>
path_manager_long == <<SLASH>> \o s_manager \o <<SLASH, "1", SLASH, "1", SLASH, "1">>
path_league == <<SLASH>> \o s_league \o <<SLASH, "1", SLASH, "1">>
path_league_mon == <<SLASH>> \o s_league \o <<SLASH>> \o s_mon \o <<SLASH, "1", SLASH, "1">>
path_league_short == <<SLASH>> \o s_league \o <<SLASH, "1">>

Paths ==
    { path_health, path_bootstrap, path_fixtures, path_element, path_live,
      path_picks_a, path_picks_b, path_picks_short, path_unknown,
      path_picks_bare, path_element_long, path_live_long,
      path_manager, path_manager_transfers, path_manager_history,
      path_manager_other, path_manager_long,
      path_league, path_league_mon, path_league_short }

----------------------------------------------------------------------------
(* State *)

Requests == {"r1", "r2"}

\* JSON bodies the upstreams can deliver
Payload(source, name) == <<source, name>>
PrimaryPayloads == {Payload("primary", <<"1">>), Payload("primary", <<"2">>)}
BackupPayloads == {Payload("backup", <<"1">>)}
NoData == Payload("none", << >>)

\* the endpoints load_backup_data has an embedded file for
BackupEndpoints == {s_bootstrap_static, s_fixtures, s_live_event}

\* the payload parsed from the embedded file of an endpoint
BackupPayload(endpoint) == Payload("backup-data", endpoint)

\* the body of the /health response, its status field
HealthBody == Payload("status", <<"O", "K">>)

\* outcomes of one client.get(url).send().await followed by response.json():
\*   ok         2xx, the body parses
\*   bad_json   2xx, the body is read and does not parse
\*   body_err   2xx, reading the body fails (timeout, connection lost)
\*   s503       status 503
\*   s404       another non-2xx status
\*   send_err   send() fails: connect, DNS, timeout before the headers
Outcomes == {"ok", "bad_json", "body_err", "s503", "s404", "send_err"}

EXHAUSTED == "Failed to fetch data from all available sources"

VARIABLES
    cache,          \* CACHE: resident key -> [data, age]
    backup_files,   \* endpoint -> Option<Value>: serde_json::from_str(file).ok()
    req,            \* request slot -> position and locals of its handler() call
    resp,           \* the response handler() returned last, with its history
    watch,          \* history: the key whose first payload is followed, if any
    first           \* history: the first payload returned for watch, and when

vars == <<cache, backup_files, req, resp, watch, first>>

IdleReq ==
    [pc |-> "idle", path |-> s_empty, is_503_error |-> FALSE,
     primary |-> "none", calls |-> << >>, stale |-> FALSE, promised |-> "no"]

NoResp ==
    [path |-> s_empty, age |-> 0, is_503_error |-> FALSE,
     primary |-> "none", backup |-> "none", calls |-> << >>,
     stale |-> FALSE, promise |-> None, promised |-> "no", hit |-> FALSE,
     evicted |-> FALSE, result |-> None, status |-> 0, body |-> s_empty]

\* handler_route over the model's paths, computed once
RouteTable == [p \in Paths |-> handler_route(p)]
Route(path) == RouteTable[path]

Plan(r) == Route(req[r].path)

NoFirst == [data |-> None, age |-> 0, kept |-> FALSE]

CacheKeys == { Unwrap(Route(p).cache_key) :
                 p \in { q \in Paths : IsSome(Route(q).cache_key) } }

EmptyCache == [k \in {} |-> None]

\* the embedded files, those of the endpoints in broken failing to parse
BackupFiles(broken) ==
    [e \in BackupEndpoints |-> IF e \in broken THEN None ELSE Some(BackupPayload(e))]

\* the state after construction: an empty cache, no request in progress; the
\* embedded files that fail to parse are among those of Broken, and the
\* followed key is one of Watches
InitOver(Broken, Watches) ==
    /\ cache = EmptyCache
    /\ backup_files \in { BackupFiles(broken) : broken \in SUBSET Broken }
    /\ req = [r \in Requests |-> IdleReq]
    /\ resp = NoResp
    /\ watch \in Watches
    /\ first = NoFirst

Init == InitOver(BackupEndpoints, {None})

----------------------------------------------------------------------------
(* The cache: Cache::builder().max_capacity(..).time_to_live(..).build() *)

Min(a, b) == IF a < b THEN a ELSE b

Entry(data) == [data |-> data, age |-> 0]

\* mutant: no time_to_live is configured
Expired_never(entry) == FALSE

\* an entry is expired once time_to_live has passed since it was inserted
Expired(entry) == entry.age >= BOOTSTRAP_CACHE_DURATION

\* mutant: the lookup never finds an entry
CacheGet_miss(c, cache_key) == None

\* cache.get(cache_key).await -> Option<Value>
CacheGet(c, cache_key) ==
    IF cache_key \in DOMAIN c /\ ~Expired(c[cache_key])
    THEN Some(c[cache_key].data)
    ELSE None

\* mutant: an insert keeps the entry a key already has
CachePut_first(c, k, entry) ==
    [x \in DOMAIN c \cup {k} |-> IF x \in DOMAIN c THEN c[x] ELSE entry]

CachePut(c, k, entry) == [x \in DOMAIN c \cup {k} |-> IF x = k THEN entry ELSE c[x]]

CacheDrop(c, ks) == [x \in DOMAIN c \ ks |-> c[x]]

\* mutant: no max_capacity is configured
CacheInsert_unbounded(c, cache_key, entry) ==
    { [x \in DOMAIN c \cup {cache_key} |-> IF x = cache_key THEN entry ELSE c[x]] }

\* cache.insert(cache_key, data).await: the caches that can result.  The entry
\* is written (replacing one of the same key); when the entries then exceed
\* max_capacity, the eviction policy removes one.  The cache is the moka
\* library, which the repository only configures; its policy is taken as the
\* contract the design states for it: the bound holds after every insert and
\* the victim is an entry older than the one just written, any of them.
CacheInsert(c, cache_key, entry) ==
    LET written == CachePut(c, cache_key, entry) IN
    IF Cardinality(DOMAIN written) > CapacityBound
    THEN { CacheDrop(written, {victim}) : victim \in DOMAIN written \ {cache_key} }
    ELSE { written }

----------------------------------------------------------------------------
(* The local snapshot store *)

\* fn load_backup_data(endpoint) -> Option<Value>
load_backup_data(endpoint) ==
    IF endpoint \in BackupEndpoints THEN backup_files[endpoint] ELSE None

----------------------------------------------------------------------------
(* fetch_with_fallback, one await at a time *)

\* mutant: the `return Ok(data)` of an attempt is missing
attempt_returns_never(outcome) == FALSE

\* an attempt returns Ok(data): the status is a success and the body parses
attempt_returns(outcome) == outcome = "ok"

\* mutant: every failure of the primary attempt sets the flag
primary_is_503_error_any(outcome) == outcome # "ok"

\* mutant: a body that does not parse sets the flag too
primary_is_503_error_parse(outcome) == outcome \in {"s503", "send_err", "bad_json"}

\* mutant: the flag is shared, set once any request has seen an overload
primary_is_503_error_shared(outcome) ==
    \/ outcome \in {"s503", "send_err"}
    \/ resp.is_503_error
    \/ \E q \in DOMAIN req : req[q].is_503_error

\* is_503_error after the primary attempt: set by status 503 and by a failed
\* send(), not by a failure of response.json()
primary_is_503_error(outcome) == outcome \in {"s503", "send_err"}

\* mutant: the backup arms set the flag as the primary arms do
backup_is_503_error_set(is_503_error, outcome) ==
    is_503_error \/ outcome \in {"s503", "send_err"}

\* is_503_error after the backup attempt: the backup arms never assign it
backup_is_503_error(is_503_error, outcome) == is_503_error

\* the local backup step is entered: load_backup_data is called
local_backup_consulted(is_503_error, local_backup) ==
    is_503_error /\ IsSome(local_backup)

\* mutant: the local backup data is used without the is_503_error test
local_backup_step_ungated(is_503_error, local_backup) ==
    IF IsSome(local_backup) /\ IsSome(load_backup_data(Unwrap(local_backup)))
    THEN Ok(Unwrap(load_backup_data(Unwrap(local_backup))))
    ELSE Err(EXHAUSTED)

\* lines 109-119: the local backup data, or the error
local_backup_step(is_503_error, local_backup) ==
    IF /\ local_backup_consulted(is_503_error, local_backup)
       /\ IsSome(load_backup_data(Unwrap(local_backup)))
    THEN Ok(Unwrap(load_backup_data(Unwrap(local_backup))))
    ELSE Err(EXHAUSTED)

LocalCalls(is_503_error, local_backup) ==
    IF local_backup_consulted(is_503_error, local_backup) THEN <<"local">> ELSE << >>

\* mutant: the backup URL attempt is skipped
next_after_primary_skip(backup_url) == "local"

\* line 88, `if let Some(backup_url) = backup_url`: what follows a primary
\* attempt that did not return
next_after_primary(backup_url) == IF IsSome(backup_url) THEN "backup" ELSE "local"

\* mutant: a backup attempt whose send() failed is made again
next_after_backup_retry(outcome) == IF outcome = "send_err" THEN "backup" ELSE "local"

\* lines 91-107: every arm of the backup attempt that does not return falls
\* through to the local backup step
next_after_backup(outcome) == "local"

----------------------------------------------------------------------------
(* History: the first payload a populating call returned for the watched
   key, the time since then, and whether the entry that call wrote is still
   the resident one (no later insert for the key, no eviction). *)

Watched(k) == watch = Some(k)

StillKept(k, c2) ==
    k \in DOMAIN c2 /\ k \in DOMAIN cache /\ c2[k] = cache[k]

\* after a populating call for k returned data, leaving the cache as c2
FirstAfter(k, data, c2) ==
    IF ~IsSome(watch) THEN first
    ELSE IF Watched(k) /\ ~IsSome(first.data)
    THEN [data |-> Some(data), age |-> 0,
          kept |-> k \in DOMAIN c2 /\ c2[k].data = data /\ c2[k].age = 0]
    ELSE [first EXCEPT !.kept = @ /\ StillKept(Unwrap(watch), c2)]

\* after the clock advanced: the window of a first payload ends with the
\* time-to-live
FirstAged ==
    IF IsSome(first.data) /\ first.age + TickSecs < BOOTSTRAP_CACHE_DURATION
    THEN [first EXCEPT !.age = @ + TickSecs]
    ELSE NoFirst

\* what a call for k that starts now has been promised: nothing, the first
\* payload, or the first payload with its entry kept since
PromisedFor(k) ==
    IF Watched(k) /\ IsSome(first.data)
    THEN IF first.kept THEN "kept" ELSE "yes"
    ELSE "no"

----------------------------------------------------------------------------
(* Actions *)

\* handler() lines 296-332: the result becomes the response
Response(locals, backup, hit, evicted, result) ==
    [path |-> locals.path, stale |-> locals.stale, evicted |-> evicted,
     age |-> IF hit THEN cache[Unwrap(Route(locals.path).cache_key)].age ELSE 0,
     is_503_error |-> locals.is_503_error, primary |-> locals.primary,
     backup |-> backup, calls |-> locals.calls,
     promise |-> IF hit /\ locals.promised # "no" THEN first.data ELSE None,
     promised |-> locals.promised, hit |-> hit, result |-> result,
     status |-> ResponseStatus(result), body |-> ResponseBody(result)]

\* mutant: a failed resolution is cached too, as an error value
cached_value_any(result) ==
    Some(IF IsOk(result) THEN result[2] ELSE Payload("error", << >>))

\* mutant: local backup data is returned but not cached
cached_value_fresh(result) ==
    IF IsOk(result) /\ result[2][1] # "backup-data" THEN Some(result[2]) ELSE None

\* line 131: `let data = fetch_with_fallback(..).await?`, the value that goes
\* on to the insert; an Err leaves the function here
cached_value(result) == IF IsOk(result) THEN Some(result[2]) ELSE None

\* the return of fetch_with_fallback into its caller: get_cached_or_fetch
\* lines 131-136 inserts an Ok result (an Err leaves by `?` before the
\* insert), the other handlers pass the result on; the call ends
Return(r, locals, backup, result) ==
    LET plan == Route(locals.path) IN
    /\ req' = [req EXCEPT ![r] = IdleReq]
    /\ IF IsSome(plan.cache_key) /\ IsSome(cached_value(result))
       THEN \E c2 \in CacheInsert(cache, Unwrap(plan.cache_key),
                                  Entry(Unwrap(cached_value(result)))) :
               /\ cache' = c2
               /\ first' = FirstAfter(Unwrap(plan.cache_key), Unwrap(cached_value(result)), c2)
               /\ resp' = Response(locals, backup, FALSE,
                                   \E x \in DOMAIN cache : x \notin DOMAIN c2, result)
       ELSE /\ resp' = Response(locals, backup, FALSE, FALSE, result)
            /\ UNCHANGED <<cache, first>>
    /\ UNCHANGED <<backup_files, watch>>

\* handler() up to its first await on an upstream: the route match, and for a
\* cacheable resource the cache lookup of get_cached_or_fetch lines 123-128
Start(r, path) ==
    LET plan == Route(path)
        locals == [IdleReq EXCEPT !.path = path]
    IN
    /\ req[r].pc = "idle"
    /\ IF plan.kind = "health" THEN
          /\ resp' = Response(locals, "none", FALSE, FALSE, Ok(HealthBody))
          /\ UNCHANGED req
       ELSE IF plan.kind = "error" THEN
          /\ resp' = Response(locals, "none", FALSE, FALSE, Err(plan.err))
          /\ UNCHANGED req
       ELSE IF IsSome(plan.cache_key) THEN
          LET k == Unwrap(plan.cache_key)
              cached_data == CacheGet(cache, k)
              seen == [locals EXCEPT !.promised = PromisedFor(k),
                                     !.stale = k \in DOMAIN cache /\ Expired(cache[k])]
          IN IF IsSome(cached_data)
             THEN /\ resp' = Response(seen, "none", TRUE, FALSE, Ok(Unwrap(cached_data)))
                  /\ UNCHANGED req
             ELSE /\ req' = [req EXCEPT ![r] = [seen EXCEPT !.pc = "primary"]]
                  /\ UNCHANGED resp
       ELSE /\ req' = [req EXCEPT ![r] = [locals EXCEPT !.pc = "primary"]]
            /\ UNCHANGED resp
    /\ UNCHANGED <<cache, backup_files, watch, first>>

\* lines 63-85, and the rest of the function when no backup URL is awaited
PrimaryResponse(r, outcome, data) ==
    LET plan == Plan(r)
        is_503_error == primary_is_503_error(outcome)
        locals == [req[r] EXCEPT !.primary = outcome, !.is_503_error = is_503_error,
                                 !.calls = <<"primary">>]
    IN
    /\ req[r].pc = "primary"
    /\ IF attempt_returns(outcome) THEN Return(r, locals, "none", Ok(data))
       ELSE IF next_after_primary(plan.backup_url) = "backup" THEN
          /\ req' = [req EXCEPT ![r] = [locals EXCEPT !.pc = "backup"]]
          /\ UNCHANGED <<cache, backup_files, resp, watch, first>>
       ELSE Return(r, [locals EXCEPT !.calls = @ \o LocalCalls(is_503_error, plan.local_backup)],
                   "none", local_backup_step(is_503_error, plan.local_backup))

\* lines 88-119
BackupResponse(r, outcome, data) ==
    LET plan == Plan(r)
        is_503_error == backup_is_503_error(req[r].is_503_error, outcome)
        locals == [req[r] EXCEPT !.is_503_error = is_503_error,
                                 !.calls = @ \o <<"backup">>]
    IN
    /\ req[r].pc = "backup"
    /\ IF attempt_returns(outcome) THEN Return(r, locals, outcome, Ok(data))
       ELSE IF next_after_backup(outcome) = "backup" THEN
          /\ req' = [req EXCEPT ![r] = locals]
          /\ UNCHANGED <<cache, backup_files, resp, watch, first>>
       ELSE Return(r, [locals EXCEPT !.calls = @ \o LocalCalls(is_503_error, plan.local_backup)],
                   outcome, local_backup_step(is_503_error, plan.local_backup))

\* time passes
Tick ==
    /\ cache' = [x \in DOMAIN cache |->
                    [cache[x] EXCEPT !.age = Min(@ + TickSecs, BOOTSTRAP_CACHE_DURATION)]]
    /\ first' = FirstAged
    /\ UNCHANGED <<backup_files, req, resp, watch>>

\* the cache's housekeeping removes expired entries
EvictExpired ==
    /\ \E x \in DOMAIN cache : Expired(cache[x])
    /\ cache' = CacheDrop(cache, { x \in DOMAIN cache : Expired(cache[x]) })
    /\ first' = IF IsSome(watch)
                THEN [first EXCEPT !.kept = @ /\ StillKept(Unwrap(watch), cache')]
                ELSE first
    /\ UNCHANGED <<backup_files, req, resp, watch>>

\* the steps of the requests in R, over the paths PS and the outcomes PO of
\* the primary and BO of the backup upstream
NextOver(R, PS, PO, BO) ==
    \/ \E r \in R, path \in PS : Start(r, path)
    \/ \E r \in R, outcome \in PO, data \in PrimaryPayloads \cup {NoData} :
          /\ outcome = "ok" <=> data # NoData
          /\ PrimaryResponse(r, outcome, data)
    \/ \E r \in R, outcome \in BO, data \in BackupPayloads \cup {NoData} :
          /\ outcome = "ok" <=> data # NoData
          /\ BackupResponse(r, outcome, data)
    \/ Tick
    \/ EvictExpired

\* The resolver under every outcome of both upstreams and every state of the
\* embedded files, for concurrent requests of one resource of each shape:
\* with a backup URL and local backup data (fixtures), with local backup data
\* only (live-event, cached), with neither (element-summary), and the
\* requests that resolve nothing
ResolverPaths ==
    { path_health, path_fixtures, path_element, path_live, path_picks_short,
      path_unknown }

Next == NextOver(Requests, ResolverPaths, Outcomes, Outcomes)

Spec == Init /\ [][Next]_vars

CachePaths == { path_bootstrap, path_live, path_picks_a, path_picks_b }

SpecCache ==
    InitOver({}, {None})
      /\ [][NextOver(Requests, CachePaths, {"ok", "s404"}, {"ok", "s404"})]_vars

FirstPaths == { path_bootstrap, path_live, path_picks_a }

SpecFirst ==
    InitOver({}, { Some(k) : k \in CacheKeys })
      /\ [][NextOver(Requests, FirstPaths, {"ok", "s404"}, {"ok", "s404"})]_vars

\* Every handler that resolves without the cache, next to cached resources
\* whose entries their requests must leave alone
BypassPaths ==
    { path_fixtures, path_element, path_manager, path_manager_transfers,
      path_manager_history, path_league, path_league_mon,
      path_bootstrap, path_picks_a }

SpecBypass ==
    InitOver({}, {None})
      /\ [][NextOver(Requests, BypassPaths, {"ok", "s503"}, {"ok", "s503"})]_vars

\* The cached resources that have local backup data, under an upstream that
\* is overloaded at times, with the first payload of one key followed
SnapshotPaths == { path_bootstrap, path_live }

SpecSnapshot ==
    InitOver({}, { Some(s_bootstrap_static), Some(s_live_event \o <<DASH, "1">>) })
      /\ [][NextOver(Requests, SnapshotPaths, {"ok", "s503"}, {"ok", "s503"})]_vars

\* the outbound call request r awaits completes, in one of the ways of PO (BO)
PrimaryCompletes(r, PO) ==
    \E outcome \in PO, data \in PrimaryPayloads \cup {NoData} :
        /\ outcome = "ok" <=> data # NoData
        /\ PrimaryResponse(r, outcome, data)

BackupCompletes(r, BO) ==
    \E outcome \in BO, data \in BackupPayloads \cup {NoData} :
        /\ outcome = "ok" <=> data # NoData
        /\ BackupResponse(r, outcome, data)

\* One resource of each shape of chain, under every outcome.  The client is
\* built with timeout(30 s), so each send() and each body read completes:
\* weak fairness of the completion of each request's pending call, request by
\* request
TerminatePaths == { path_fixtures, path_live, path_element }

SpecTerminates ==
    /\ InitOver({}, {None})
    /\ [][NextOver(Requests, TerminatePaths, Outcomes, Outcomes)]_vars
    /\ \A r \in Requests :
          /\ WF_vars(PrimaryCompletes(r, Outcomes))
          /\ WF_vars(BackupCompletes(r, Outcomes))

\* Every path that ends in an error without resolving, next to resolutions
\* that fail and succeed
StatusPaths ==
    { path_health, path_unknown, path_picks_bare, path_picks_short, path_element_long,
      path_live_long, path_manager_other, path_manager_long, path_league_short,
      path_fixtures, path_manager, path_live }

SpecStatus ==
    InitOver({}, {None})
      /\ [][NextOver(Requests, StatusPaths, {"ok", "s404", "s503"}, {"ok", "s404"})]_vars

----------------------------------------------------------------------------
(* Vocabulary of the properties *)

\* a response has been returned
Responded == resp.path # s_empty

RespPlan == Route(resp.path)

\* the last response is the outcome of a fetch_with_fallback call
Resolved == Responded /\ RespPlan.kind = "resolve" /\ ~resp.hit

\* the last resolution called tier
Called(tier) == \E i \in 1..Len(resp.calls) : resp.calls[i] = tier

\* the result is the local backup data
IsLocalData(result) == IsOk(result) /\ result[2][1] = "backup-data"

\* the local backup data of a plan that names an endpoint
LocalData(plan) == load_backup_data(Unwrap(plan.local_backup))

\* the overload signals of the design: status 503 and transport failures
OverloadSignal(outcome) == outcome \in {"s503", "send_err", "body_err"}

\* the overload signals the primary attempt records in is_503_error
RecordedSignal(outcome) == outcome \in {"s503", "send_err"}

----------------------------------------------------------------------------
(* C3: snapshot gating.  With no backup URL and local backup data present for
   the endpoint, a primary 503 ends in the local backup data and a primary
   404 ends in the exhaustion error; and whenever a resolution returns local
   backup data, its primary attempt produced an overload signal. *)
C3_SnapshotGating ==
    Resolved =>
        /\ ( /\ ~IsSome(RespPlan.backup_url)
             /\ IsSome(RespPlan.local_backup)
             /\ IsSome(LocalData(RespPlan)) ) =>
              /\ resp.primary = "s503" => resp.result = Ok(Unwrap(LocalData(RespPlan)))
              /\ resp.primary = "s404" => resp.result = Err(EXHAUSTED)
        /\ IsLocalData(resp.result) => OverloadSignal(resp.primary)

C3_Witness ==
    /\ Resolved
    /\ resp.path = path_live
    /\ resp.primary = "s503"
    /\ IsLocalData(resp.result)

(* C4: short-circuit on first success.  The backup URL is never awaited after
   a successful primary attempt; a resolution whose primary attempt succeeds
   called the primary only and returns a primary payload; one whose backup
   attempt succeeds called primary and backup only, never the local backup
   data, and returns the backup payload. *)
C4_ShortCircuit ==
    /\ \A r \in Requests : req[r].pc = "backup" => req[r].primary # "ok"
    /\ Resolved =>
        /\ resp.primary = "ok" =>
              /\ resp.calls = <<"primary">>
              /\ IsOk(resp.result) /\ resp.result[2] \in PrimaryPayloads
        /\ resp.backup = "ok" =>
              /\ resp.calls = <<"primary", "backup">>
              /\ IsOk(resp.result) /\ resp.result[2] \in BackupPayloads
        /\ IsLocalData(resp.result) =>
              /\ resp.primary # "ok" /\ resp.backup # "ok"
              /\ resp.calls[Len(resp.calls)] = "local"

C4_Witness ==
    /\ Resolved
    /\ resp.primary = "s503" /\ resp.backup = "ok"
    /\ IsSome(LocalData(RespPlan))
    /\ resp.calls = <<"primary", "backup">>

(* C6: the outcome of the backup attempt never changes the eligibility of the
   local backup data.  In every resolution whose backup attempt failed, in
   whatever way, the local backup data is consulted iff the primary attempt
   recorded an overload signal (and the plan names an endpoint), and the flag
   is the one the primary attempt left; primary 404 with backup 503 ends in
   the exhaustion error, primary 503 with backup 404 in the local data. *)
C6_MirrorNeutral ==
    (Resolved /\ resp.backup \notin {"none", "ok"}) =>
        /\ resp.is_503_error = RecordedSignal(resp.primary)
        /\ Called("local") <=> (RecordedSignal(resp.primary) /\ IsSome(RespPlan.local_backup))
        /\ (IsSome(RespPlan.local_backup) /\ IsSome(LocalData(RespPlan))) =>
              /\ (resp.primary = "s404" /\ resp.backup = "s503") =>
                    resp.result = Err(EXHAUSTED)
              /\ (resp.primary = "s503" /\ resp.backup = "s404") =>
                    resp.result = Ok(Unwrap(LocalData(RespPlan)))

C6_Witness ==
    /\ Resolved
    /\ resp.primary = "s404" /\ resp.backup = "s503"
    /\ IsSome(RespPlan.local_backup) /\ IsSome(LocalData(RespPlan))
    /\ resp.result = Err(EXHAUSTED)

(* C7: every transport-level failure of the primary attempt, a failed send or
   a failure while the body is read, is classified as an overload signal: the
   resolution goes on with is_503_error set, so the local backup data is
   consulted whenever the plan names an endpoint. *)
C7_TransportIsOverload ==
    /\ \A r \in Requests :
          (req[r].pc = "backup" /\ req[r].primary \in {"send_err", "body_err"}) =>
             req[r].is_503_error
    /\ (Resolved /\ resp.primary \in {"send_err", "body_err"}) =>
          /\ resp.is_503_error
          /\ IsSome(RespPlan.local_backup) => Called("local")

(* C9: exhaustion.  A resolution returns an error, and then the one message,
   exactly when the primary attempt did not succeed, the backup URL is absent
   or its attempt did not succeed, and the local backup data is not eligible
   (no recorded overload signal, or no endpoint named) or not there. *)
C9_Exhaustion ==
    Resolved =>
        LET eligible == RecordedSignal(resp.primary) /\ IsSome(RespPlan.local_backup)
            present == eligible /\ IsSome(LocalData(RespPlan))
        IN /\ IsErr(resp.result) <=>
                 /\ resp.primary # "ok"
                 /\ ~IsSome(RespPlan.backup_url) \/ resp.backup # "ok"
                 /\ ~present
           /\ IsErr(resp.result) => resp.result = Err(EXHAUSTED)
           /\ IsErr(resp.result) \/ IsOk(resp.result)

C9_Witness ==
    /\ Resolved
    /\ resp.path = path_element
    /\ resp.primary = "send_err"
    /\ resp.result = Err(EXHAUSTED)

----------------------------------------------------------------------------
(* Vocabulary of the cache properties *)

\* request r is a get_cached_or_fetch call in progress
Caching(r) == req[r].pc # "idle" /\ IsSome(Plan(r).cache_key)

\* the cache key of the last response, which is one of a cacheable resource
RespCached == Responded /\ IsSome(RespPlan.cache_key)
RespKey == Unwrap(RespPlan.cache_key)

\* this step is the return of request r's get_cached_or_fetch call after a miss
Returns(r) == Caching(r) /\ req'[r].pc = "idle"

(* C1 as stated: once a call for the followed key has returned a payload,
   every later call for it within the time-to-live is a hit that returns that
   first payload and calls no tier. *)
C1_FirstPayloadAlways ==
    /\ \A r \in Requests : req[r].pc # "idle" => req[r].promised = "no"
    /\ (Responded /\ resp.promised # "no") =>
          /\ resp.hit
          /\ resp.result = Ok(Unwrap(resp.promise))
          /\ resp.calls = << >>

(* C1, amended: once a call for key K has returned a payload, every later
   call for K within the time-to-live is a hit that returns that first payload
   and calls no tier, provided that in between no other call has inserted for
   K and the capacity bound has not evicted K's entry; and every hit returns
   without calling a tier. *)
C1_HitAvoidsIO ==
    /\ \A r \in Requests : req[r].pc # "idle" => req[r].promised # "kept"
    /\ (Responded /\ resp.promised = "kept") =>
          /\ resp.hit
          /\ resp.result = Ok(Unwrap(resp.promise))
    /\ (Responded /\ resp.hit) => (resp.calls = << >> /\ IsOk(resp.result))

C1_Witness ==
    /\ Responded
    /\ resp.promised = "kept"
    /\ resp.hit
    /\ resp.age = TickSecs
    /\ resp.result = Ok(Unwrap(resp.promise))
    /\ \E r \in Requests : req[r].pc # "idle"

----------------------------------------------------------------------------
(* C2: no negative caching.  A get_cached_or_fetch call whose resolution
   fails returns the exhaustion error and leaves the cache exactly as it was;
   a call that missed runs the chain from the primary; and a call whose
   resolution succeeds returns the payload and leaves it stored under the
   key, fresh. *)
C2_NoNegativeCaching ==
    /\ [][ \A r \in Requests : Returns(r) =>
              /\ IsErr(resp'.result) =>
                    (cache' = cache /\ resp'.result = Err(EXHAUSTED))
              /\ IsOk(resp'.result) =>
                    /\ Unwrap(Plan(r).cache_key) \in DOMAIN cache'
                    /\ cache'[Unwrap(Plan(r).cache_key)] = Entry(resp'.result[2])
              /\ resp'.calls[1] = "primary" ]_vars
    /\ [](\A k \in DOMAIN cache : cache[k].data[1] # "error")

C2_Witness ==
    /\ RespCached
    /\ resp.result = Err(EXHAUSTED)
    /\ RespKey \notin DOMAIN cache
    /\ \A r \in Requests : req[r].pc = "idle"

----------------------------------------------------------------------------
(* C5: expiry.  No hit serves an entry whose age has reached the
   time-to-live; a call that finds its key's entry expired is not a hit and
   runs the chain from the primary; and when that resolution succeeds, the
   payload is stored under the key with age 0. *)
C5_Expiry ==
    /\ []( /\ (Responded /\ resp.hit) => resp.age < BOOTSTRAP_CACHE_DURATION
           /\ (Responded /\ resp.stale) => (~resp.hit /\ resp.calls[1] = "primary")
           /\ \A r \in Requests : req[r].stale => req[r].pc \in {"primary", "backup"} )
    /\ [][ \A r \in Requests : (Returns(r) /\ req[r].stale /\ IsOk(resp'.result)) =>
              /\ Unwrap(Plan(r).cache_key) \in DOMAIN cache'
              /\ cache'[Unwrap(Plan(r).cache_key)] = [data |-> resp'.result[2], age |-> 0] ]_vars

C5_Witness ==
    /\ RespCached
    /\ resp.stale /\ ~resp.hit /\ IsOk(resp.result)
    /\ RespKey \in DOMAIN cache
    /\ cache[RespKey] = [data |-> resp.result[2], age |-> 0]

----------------------------------------------------------------------------
(* C8: resource keys are collision-free.  Two get_cached_or_fetch calls in
   progress have the same cache key iff they are the same logical query. *)
C8_KeysCollisionFree ==
    \A r1, r2 \in Requests :
        (Caching(r1) /\ Caching(r2)) =>
            (Plan(r1).cache_key = Plan(r2).cache_key <=> Plan(r1).query = Plan(r2).query)

----------------------------------------------------------------------------
(* C10: capacity bound.  The number of resident entries never exceeds the
   configured maximum. *)
C10_CapacityBound == Cardinality(DOMAIN cache) <= CapacityBound

C10_Witness ==
    /\ RespCached
    /\ resp.evicted
    /\ RespKey \in DOMAIN cache
    /\ Cardinality(DOMAIN cache) = CapacityBound

----------------------------------------------------------------------------
(* C11: strict tier order without retries.  The calls of one resolution are
   the primary once, then the backup URL at most once and only when it is
   configured and the primary attempt did not succeed, then the local backup
   lookup at most once and only after every configured URL attempt has
   completed without success; a request in progress has made the same calls
   in the same order so far, and a response carries the calls of at most one
   such traversal. *)
TierOrders(plan) ==
    IF IsSome(plan.backup_url)
    THEN { <<"primary">>, <<"primary", "backup">>, <<"primary", "backup", "local">> }
    ELSE { <<"primary">>, <<"primary", "local">> }

C11_TierOrder ==
    /\ \A r \in Requests :
          /\ req[r].pc = "primary" => req[r].calls = << >>
          /\ req[r].pc = "backup" =>
                /\ req[r].calls = <<"primary">>
                /\ req[r].primary # "ok"
                /\ IsSome(Plan(r).backup_url)
    /\ Resolved =>
          /\ resp.calls \in TierOrders(RespPlan)
          /\ Called("backup") <=> (IsSome(RespPlan.backup_url) /\ resp.primary # "ok")
          /\ Called("local") =>
                /\ resp.primary # "ok"
                /\ IsSome(RespPlan.backup_url) => resp.backup \notin {"none", "ok"}
    /\ (Responded /\ ~Resolved) => resp.calls = << >>

C11_Witness ==
    /\ Resolved
    /\ resp.calls = <<"primary", "backup", "local">>
    /\ \E r \in Requests : req[r].pc = "backup"

----------------------------------------------------------------------------
(* C12: a 2xx body that does not parse is a dead end for that URL only.  When
   the primary attempt ends so, the backup URL is still called if it is
   configured, the flag is_503_error stays false and the local backup data is
   not consulted: unless the backup attempt succeeds, the result is the
   exhaustion error, also when local backup data is present. *)
C12_UnparsableDeadEnd ==
    /\ \A r \in Requests :
          (req[r].pc = "backup" /\ req[r].primary = "bad_json") => ~req[r].is_503_error
    /\ (Resolved /\ resp.primary = "bad_json") =>
          /\ ~resp.is_503_error
          /\ ~Called("local")
          /\ IsSome(RespPlan.backup_url) => Called("backup")
          /\ resp.backup = "ok" => (IsOk(resp.result) /\ resp.result[2] \in BackupPayloads)
          /\ resp.backup # "ok" => resp.result = Err(EXHAUSTED)

C12_Witness ==
    /\ Resolved
    /\ resp.path = path_fixtures
    /\ resp.primary = "bad_json" /\ resp.backup = "s503"
    /\ IsSome(LocalData(RespPlan))
    /\ resp.result = Err(EXHAUSTED)

----------------------------------------------------------------------------
(* C13: resources that are not cached bypass the cache.  The handlers of
   fixtures, element summary, manager info, transfers and history, and league
   standings pass no cache key; every step of one of their requests leaves
   the cache as it is; each of their requests starts a resolution of its own
   and is answered by it, never by a cache entry; and the keys resident in
   the cache are bootstrap-static, live-event-.. and picks-.. keys only. *)
NonCached ==
    { "fixtures", "element-summary", "manager-info", "manager-transfers",
      "manager-history", "league-standings", "league-standings-by-phase" }

Bypasses(path) == Route(path).kind = "resolve" /\ ~IsSome(Route(path).cache_key)

C13_BypassCache ==
    /\ [][ \A r \in Requests :
              /\ (req[r].pc = "idle" /\ req'[r].pc # "idle" /\ Bypasses(req'[r].path)) =>
                    (req'[r].pc = "primary" /\ cache' = cache)
              /\ (req[r].pc # "idle" /\ Bypasses(req[r].path) /\ req'[r] # req[r]) =>
                    cache' = cache ]_vars
    /\ []( /\ \A p \in Paths :
                 (Route(p).kind = "resolve" /\ Route(p).query.resource \in NonCached) =>
                     Bypasses(p)
           /\ (Responded /\ Bypasses(resp.path)) =>
                 (~resp.hit /\ resp.calls # << >> /\ resp.calls[1] = "primary")
           /\ \A k \in DOMAIN cache :
                 \/ k = s_bootstrap_static
                 \/ StartsWith(k, s_live_event \o <<DASH>>)
                 \/ StartsWith(k, s_picks \o <<DASH>>) )

C13_Witness ==
    /\ Responded
    /\ resp.path = path_manager_history
    /\ IsOk(resp.result)
    /\ s_bootstrap_static \in DOMAIN cache
    /\ cache[s_bootstrap_static].data # resp.result[2]
    /\ \E r \in Requests : req[r].pc = "backup"

----------------------------------------------------------------------------
(* C14: the same-key miss race is benign.  A get_cached_or_fetch call that
   missed returns the outcome of its own resolution whatever other calls for
   the key do meanwhile: it fails iff its own attempts failed, and its payload
   is the one its own tier delivered; when it succeeds, the key's entry is
   replaced by its payload, so that the resident entry of a key is always
   the payload of the last call that inserted for it; a failing call leaves
   the entry of the other call alone. *)
OwnFailure(response) ==
    /\ response.primary # "ok"
    /\ response.backup # "ok"
    /\ ~( /\ RecordedSignal(response.primary)
          /\ IsSome(Route(response.path).local_backup)
          /\ IsSome(LocalData(Route(response.path))) )

C14_MissRaceBenign ==
    /\ [][ \A r \in Requests : Returns(r) =>
              /\ resp'.path = req[r].path /\ ~resp'.hit
              /\ req[r].pc = "backup" => resp'.primary = req[r].primary
              /\ IsErr(resp'.result) <=> OwnFailure(resp')
              /\ IsErr(resp'.result) => cache' = cache
              /\ resp'.primary = "ok" => resp'.result[2] \in PrimaryPayloads
              /\ resp'.backup = "ok" => resp'.result[2] \in BackupPayloads
              /\ IsOk(resp'.result) =>
                    /\ Unwrap(Plan(r).cache_key) \in DOMAIN cache'
                    /\ cache'[Unwrap(Plan(r).cache_key)].data = resp'.result[2]
              /\ \A q \in Requests \ {r} : req'[q] = req[q] ]_vars
    /\ []( (RespCached /\ ~resp.hit /\ IsOk(resp.result) /\ RespKey \in DOMAIN cache) =>
              cache[RespKey].data = resp.result[2] )

\* two calls for the followed key overlapped and both succeeded: the second
\* to return started before the first had returned, and its payload has
\* replaced the first one's
C14_Witness ==
    /\ \A r \in Requests : req[r].pc = "idle"
    /\ IsSome(watch) /\ RespCached /\ Watched(RespKey)
    /\ ~resp.hit /\ ~resp.stale /\ resp.promised = "no"
    /\ IsSome(first.data) /\ first.age = 0 /\ ~first.kept
    /\ IsOk(resp.result) /\ Some(resp.result[2]) # first.data
    /\ RespKey \in DOMAIN cache
    /\ cache[RespKey] = Entry(resp.result[2])

----------------------------------------------------------------------------
(* C15: payload pass-through.  Every response that carries a payload has
   status 200 and a body that reads back as exactly the payload its tier
   delivered: a primary payload when the primary attempt succeeded, a backup
   payload when the backup attempt did, the local backup data of the
   endpoint when the local step did, and the data of the entry when the
   cache was hit. *)
C15_PassThrough ==
    (Responded /\ IsOk(resp.result) /\ RespPlan.kind = "resolve") =>
        /\ resp.status = 200
        /\ from_str(resp.body) = Some(resp.result[2])
        /\ (Resolved /\ resp.primary = "ok") => resp.result[2] \in PrimaryPayloads
        /\ (Resolved /\ resp.backup = "ok") => resp.result[2] \in BackupPayloads
        /\ (Resolved /\ Called("local")) => Some(resp.result[2]) = LocalData(RespPlan)
        /\ Resolved => (resp.primary = "ok" \/ resp.backup = "ok" \/ Called("local"))
        /\ (resp.hit /\ RespKey \in DOMAIN cache) => cache[RespKey].data = resp.result[2]

C15_Witness ==
    /\ Responded /\ resp.hit
    /\ resp.status = 200
    /\ resp.result[2] \in PrimaryPayloads
    /\ from_str(resp.body) = Some(resp.result[2])
    /\ RespKey \in DOMAIN cache /\ cache[RespKey].age = TickSecs

----------------------------------------------------------------------------
(* C16: the /health request is answered with status 200 and a body whose
   status field is "OK", whatever the cache holds and whatever the upstreams
   do; answering it calls no tier, is not a cache hit, and leaves the cache
   and every request in progress as they are. *)
C16_Health ==
    /\ []( (Responded /\ resp.path = path_health) =>
              /\ resp.status = 200
              /\ from_str(resp.body) = Some(<<"status", <<"O", "K">>>>)
              /\ resp.calls = << >> /\ ~resp.hit
              /\ resp.primary = "none" /\ resp.backup = "none" )
    /\ []( \A r \in Requests : req[r].pc # "idle" => req[r].path # path_health )
    /\ [][ (resp'.path = path_health /\ resp.path # path_health) =>
              (cache' = cache /\ req' = req) ]_vars

C16_Witness ==
    /\ Responded /\ resp.path = path_health
    /\ resp.status = 200
    /\ cache # EmptyCache
    /\ \E r \in Requests : req[r].pc = "backup" /\ req[r].primary = "send_err"

----------------------------------------------------------------------------
(* C17: error status mapping.  A failed request is answered with status 404
   iff its path matches none of the routes, and then with the error
   "Not Found"; every other failure is answered with status 500: the
   exhaustion of all sources, and a malformed path under a known prefix.
   The body carries the error message. *)
RoutePrefixes ==
    { <<SLASH>> \o s \o <<SLASH>> :
        s \in {s_element_summary, s_live_event, s_picks, s_manager, s_league} }

MatchesRoute(path) ==
    \/ path \in {s_health, <<SLASH>> \o s_bootstrap_static, <<SLASH>> \o s_fixtures}
    \/ \E prefix \in RoutePrefixes : StartsWith(path, prefix)

C17_ErrorStatus ==
    (Responded /\ IsErr(resp.result)) =>
        /\ resp.status \in {404, 500}
        /\ resp.status = 404 <=> ~MatchesRoute(resp.path)
        /\ resp.status = 404 <=> resp.result = Err("Not Found")
        /\ Resolved => (resp.result = Err(EXHAUSTED) /\ resp.status = 500)
        /\ (MatchesRoute(resp.path) /\ RespPlan.kind = "error") => resp.status = 500
        /\ from_str(resp.body) = Some(<<"error", <<resp.result[2]>>>>)

C17_Witness ==
    /\ Responded
    /\ resp.path = path_manager_other
    /\ resp.result = Err("Invalid manager endpoint")
    /\ resp.status = 500
    /\ \E r \in Requests : req[r].pc = "backup"

----------------------------------------------------------------------------
(* C18: every resolution terminates.  When each outbound call completes,
   every request in progress returns; the completion of its pending call is
   enabled whatever the other requests do; and a resolution returns a payload
   or the exhaustion error after at most two outbound calls. *)
Outbound(calls) == SelectSeq(calls, LAMBDA tier : tier \in {"primary", "backup"})

C18_Terminates ==
    /\ \A r \in Requests : (req[r].pc # "idle") ~> (req[r].pc = "idle")
    /\ []( \A r \in Requests :
              /\ req[r].pc = "primary" =>
                    \A outcome \in Outcomes : ENABLED PrimaryCompletes(r, {outcome})
              /\ req[r].pc = "backup" =>
                    \A outcome \in Outcomes : ENABLED BackupCompletes(r, {outcome})
              /\ Len(Outbound(req[r].calls)) <= 2 )
    /\ []( Resolved =>
              /\ Len(Outbound(resp.calls)) <= 2
              /\ IsOk(resp.result) \/ resp.result = Err(EXHAUSTED) )

C18_Witness ==
    /\ Resolved
    /\ Len(Outbound(resp.calls)) = 2
    /\ resp.backup = "send_err"
    /\ resp.result = Err(EXHAUSTED)
    /\ \E r \in Requests : req[r].pc = "primary"

----------------------------------------------------------------------------
(* C19 as stated: once a get_cached_or_fetch call has returned the local
   backup data for a key, every later request for the key that the cache
   answers within the time-to-live returns that local backup data. *)
SnapshotPromised == IsSome(resp.promise) /\ Unwrap(resp.promise)[1] = "backup-data"

C19_SnapshotAlwaysServed ==
    (Responded /\ resp.hit /\ resp.promised # "no" /\ SnapshotPromised) =>
        resp.result = Ok(Unwrap(resp.promise))

(* C19, amended: a get_cached_or_fetch call that succeeds through the local
   backup step stores the local backup data under its cache key, as a fresh
   entry; and every later request for the key within the time-to-live is a
   hit that returns it without calling a tier, provided that in between no
   other call has inserted for the key and the entry has not been evicted. *)
C19_SnapshotCached ==
    /\ [][ \A r \in Requests :
              (Returns(r) /\ IsOk(resp'.result) /\ resp'.calls[Len(resp'.calls)] = "local") =>
                 /\ resp'.result = Ok(BackupPayload(Unwrap(Plan(r).local_backup)))
                 /\ Unwrap(Plan(r).cache_key) \in DOMAIN cache'
                 /\ cache'[Unwrap(Plan(r).cache_key)] = Entry(resp'.result[2]) ]_vars
    /\ []( \A r \in Requests : req[r].pc # "idle" => req[r].promised # "kept" )
    /\ []( (Responded /\ resp.promised = "kept" /\ SnapshotPromised) =>
              /\ resp.hit
              /\ resp.result = Ok(Unwrap(resp.promise))
              /\ resp.calls = << >> )

\* a hit returns the local backup data stored TickSecs ago, after the primary
\* has answered a request for another key
C19_Witness ==
    /\ Responded /\ resp.hit
    /\ resp.promised = "kept" /\ SnapshotPromised
    /\ resp.result = Ok(Unwrap(resp.promise))
    /\ resp.age = TickSecs
    /\ \E k \in DOMAIN cache : cache[k].age = 0 /\ cache[k].data \in PrimaryPayloads

----------------------------------------------------------------------------
(* C20: the overload signal is private to one resolution.  Under every
   interleaving of the requests, the flag of a resolution is the one its own
   primary attempt set, and the local backup data is consulted iff that flag
   is set (the plan naming an endpoint and no URL having answered); a resolution whose primary
   attempt failed with a status other than 503 never returns local backup
   data, whatever the other requests have seen; and a step of one request
   leaves the locals of the other requests as they are. *)
C20_SignalPrivate ==
    /\ []( \A r \in Requests :
              /\ req[r].pc = "primary" => ~req[r].is_503_error
              /\ req[r].pc = "backup" =>
                    req[r].is_503_error = RecordedSignal(req[r].primary) )
    /\ []( Resolved =>
              /\ resp.is_503_error = RecordedSignal(resp.primary)
              /\ Called("local") <=>
                    (resp.is_503_error /\ IsSome(RespPlan.local_backup) /\ resp.backup # "ok")
              /\ resp.primary = "s404" => ~IsLocalData(resp.result) )
    /\ [][ \A r \in Requests :
              req'[r] # req[r] => \A q \in Requests \ {r} : req'[q] = req[q] ]_vars

\* a resolution that got 404 ends in the error, with local backup data
\* present, while a concurrent request holds an overload signal
C20_Witness ==
    /\ Resolved
    /\ resp.path = path_live
    /\ resp.primary = "s404"
    /\ IsSome(LocalData(RespPlan))
    /\ resp.result = Err(EXHAUSTED)
    /\ \E r \in Requests : req[r].pc = "backup" /\ req[r].is_503_error

====
